---- MODULE Spec2Model ----
(***************************************************************************)
(* A model of SndCaenManager (src/SndCaenManager.py): a facade that        *)
(* resolves logical DAQ board names to (crate, board, channel) triples of  *)
(* a configuration and issues get/set calls of the pycaenhv library.       *)
(*                                                                         *)
(* Voltages are integers in tenths of a volt (35 is 3.5 V, -100 is -10 V). *)
(* Python values that may be of several types are tagged records:          *)
(* Num(n), Bool(b), NoValue.  An optional argument is Some(x) or PyNone.   *)
(* A Python exception is the name of its class in the field exc, "none"    *)
(* when nothing was raised.                                                *)
(***************************************************************************)
EXTENDS Integers, Sequences, FiniteSets, TLC

VARIABLES config,      \* self.config, the parsed configuration file
          handles,     \* self.handles, one library handle per crate
          init_calls,  \* number of init_system calls made so far
          hw,          \* the channel parameters held by the power supplies
          op,          \* the method being called, with its arguments
          log,         \* the library calls it issued, in order
          outcome,     \* "none" (no call in progress), "returned" or an exception
          nops         \* number of methods called so far

vars == <<config, handles, init_calls, hw, op, log, outcome, nops>>

(* Bounds of the model. *)
MaxDaqs == 2   \* longest list given as the daqs argument
MaxOps == 1    \* number of method calls in one run

-----------------------------------------------------------------------------
(* Python values *)

Num(n) == [num |-> n]
Bool(b) == [bool |-> b]
NoValue == [novalue |-> TRUE]
PyNone == [some |-> FALSE]
Some(x) == [some |-> TRUE, val |-> x]

Ok(calls) == [exc |-> "none", calls |-> calls]
Raise(e) == [exc |-> e, calls |-> <<>>]

Min(a, b) == IF a < b THEN a ELSE b

(* list[i] of Python: 0-based, negative indices count from the end. *)
ValidIndex(list, i) == -Len(list) <= i /\ i < Len(list)
PyIndex(list, i) == IF i >= 0 THEN list[i + 1] ELSE list[Len(list) + i + 1]

-----------------------------------------------------------------------------
(* Configurations *)

Crates == << [module |-> "SY4527", linktype |-> "TCPIP", address |-> "crate-a"],
             [module |-> "SY5527", linktype |-> "TCPIP", address |-> "crate-b"] >>

BoardSection ==
  [order |-> << "default", "m1x1", "m1x2" >>,
   at |-> [default |-> [v |-> 45],
           m1x1 |-> [crate |-> 1, board |-> 0, channel |-> 1],
           m1x2 |-> [crate |-> -1, board |-> 0, channel |-> 2]]]


BiasSection(dflt, crate2) ==
  [order |-> << "m1x1", "default", "m1x2" >>,
   at |-> [default |-> dflt,
           m1x1 |-> [crate |-> 0, board |-> 1, channel |-> 0,
                     v_bd |-> 520, v_offset_tofpet |-> 2],
           m1x2 |-> [crate |-> crate2, board |-> 2, channel |-> 1,
                     v_bd |-> 530]]]

Config(dflt, crate2) ==
  [crates |-> Crates, board |-> BoardSection, bias |-> BiasSection(dflt, crate2)]

(* The configuration files tried: the overvoltage of mode 'operation' as   *)
(* documented (3.5 V); another overvoltage; and a [bias.default] table     *)
(* without the key, with m1x2 on a crate index past the last crate.        *)
Configs == { Config([v_offset_tofpet |-> 1, ov |-> 35], 0),
             Config([v_offset_tofpet |-> 1, ov |-> 40], 0),
             Config([v_offset_tofpet |-> 1], 2) }

(* Arguments tried. *)
Names == {"m1x1", "m1x2", "default", "m9x9"}
Lists == UNION { [1..n -> Names] : n \in 0..MaxDaqs }
DaqsArgs == {PyNone} \cup { Some(l) : l \in Lists }
Modes == {"board", "bias"}
HVModes == {"off", "idle", "operation", "on", "standby"}
Parameters == {"V0Set", "Status"}
OVArgs == {20}
VArgs == {PyNone, Some(50)}

-----------------------------------------------------------------------------
(* The library *)

(* The handle init_system returns for the k-th crate. *)
init_system(k) == 10 + k

Slots == { <<h, b, c>> : h \in { init_system(k) : k \in 1..Len(Crates) },
                         b \in 0..2, c \in 0..2 }

(* What the power supplies hold when the manager connects: every channel   *)
(* off at 0 V, or off at 50 V as an earlier session left them.             *)
PowerSupplyStates ==
  { [s \in Slots |-> [V0Set |-> Num(0), Pw |-> Bool(FALSE)]],
    [s \in Slots |-> [V0Set |-> Num(500), Pw |-> Bool(FALSE)]] }

Call(fn, handle, board, channel, parameter, value, pos) ==
  [fn |-> fn, handle |-> handle, board |-> board, channel |-> channel,
   parameter |-> parameter, value |-> value, pos |-> pos, ok |-> TRUE]

(* The effect of one call on the power supplies: a set_channel_parameter   *)
(* that succeeds stores the value, everything else leaves them alone.      *)
set_channel_parameter(h, c) ==
  IF c.fn = "set_channel_parameter" /\ c.ok
  THEN [h EXCEPT ![<<c.handle, c.board, c.channel>>][c.parameter] = c.value]
  ELSE h

RECURSIVE Apply(_, _)
Apply(h, calls) ==
  IF calls = <<>> THEN h
  ELSE Apply(set_channel_parameter(h, Head(calls)), Tail(calls))

-----------------------------------------------------------------------------
(* SndCaenManager *)

HasKey(mode, daq, key) ==
  /\ daq \in DOMAIN config[mode].at
  /\ key \in DOMAIN config[mode].at[daq]

(* getConfigProperty returning the board and the channel in the wrong      *)
(* order.                                                                  *)
getConfigProperty_swapped(daq, mode) ==
  IF /\ HasKey(mode, daq, "crate")
     /\ HasKey(mode, daq, "board")
     /\ HasKey(mode, daq, "channel")
  THEN [exc |-> "none",
        crate |-> config[mode].at[daq].crate,
        board |-> config[mode].at[daq].channel,
        channel |-> config[mode].at[daq].board]
  ELSE [exc |-> "KeyError", crate |-> 0, board |-> 0, channel |-> 0]

getConfigProperty(daq, mode) ==
  IF /\ HasKey(mode, daq, "crate")
     /\ HasKey(mode, daq, "board")
     /\ HasKey(mode, daq, "channel")
  THEN [exc |-> "none",
        crate |-> config[mode].at[daq].crate,
        board |-> config[mode].at[daq].board,
        channel |-> config[mode].at[daq].channel]
  ELSE [exc |-> "KeyError", crate |-> 0, board |-> 0, channel |-> 0]

(* One library call on the channel p: self.handles[crate] is evaluated     *)
(* first and raises IndexError when there is no such crate.                *)
Issue(fn, p, parameter, value, pos) ==
  IF ~ValidIndex(handles, p.crate) THEN Raise("IndexError")
  ELSE Ok(<< Call(fn, PyIndex(handles, p.crate), p.board, p.channel,
                  parameter, value, pos) >>)

(* Two statements in sequence: the second runs when the first raised       *)
(* nothing.                                                                *)
Then(a, b) ==
  IF a.exc # "none" THEN a
  ELSE [exc |-> b.exc, calls |-> a.calls \o b.calls]

(* A for loop whose iterations are rs: it stops at the first exception.    *)
RECURSIVE ForEach(_)
ForEach(rs) ==
  IF rs = <<>> THEN Ok(<<>>) ELSE Then(Head(rs), ForEach(Tail(rs)))

Keys(mode) == config[mode].order


(* The keys a loop over the whole section visits, and the names a loop over *)
(* the daqs argument visits.                                               *)
Visited(mode, daqs) == IF daqs.some THEN daqs.val ELSE Keys(mode)

(* switchLV, lines 68-71 and 75-78: the body of the loop for one daq.      *)
switchLV_daq(on, daq, pos) ==
  LET p == getConfigProperty(daq, "board") IN
  IF p.exc # "none" THEN Raise(p.exc)
  ELSE Issue("set_channel_parameter", p, "Pw", Bool(on), pos)

switchLV_calls(on, daqs) ==
  LET ds == Visited("board", daqs) IN
  ForEach([i \in 1..Len(ds) |->
    IF daqs.some
    THEN IF ds[i] \in DOMAIN config["board"].at
         THEN switchLV_daq(on, ds[i], i)
         ELSE Ok(<<>>)                       \* "Module ... does not exist"
    ELSE IF ds[i] # "default" THEN switchLV_daq(on, ds[i], i) ELSE Ok(<<>>)])

(* override_OV, lines 95-102 and 108-113: the voltage for one daq, with    *)
(* the offset of the default table when the try block raises KeyError.     *)
Voltage(OV, daq) ==
  IF HasKey("bias", daq, "v_offset_tofpet") /\ HasKey("bias", daq, "v_bd")
  THEN [exc |-> "none",
        V |-> OV + config["bias"].at[daq].v_offset_tofpet
                 + config["bias"].at[daq].v_bd]
  ELSE IF HasKey("bias", "default", "v_offset_tofpet") /\ HasKey("bias", daq, "v_bd")
  THEN [exc |-> "none",
        V |-> OV + config["bias"].at["default"].v_offset_tofpet
                 + config["bias"].at[daq].v_bd]
  ELSE [exc |-> "KeyError", V |-> 0]

override_OV_daq(OV, daq, pos) ==
  LET p == getConfigProperty(daq, "bias")
      v == Voltage(OV, daq)
  IN IF p.exc # "none" THEN Raise(p.exc)
     ELSE IF v.exc # "none" THEN Raise(v.exc)
     ELSE Issue("set_channel_parameter", p, "V0Set", Num(v.V), pos)

override_OV_calls(OV, daqs) ==
  LET ds == Visited("bias", daqs) IN
  ForEach([i \in 1..Len(ds) |->
    IF daqs.some THEN override_OV_daq(OV, ds[i], i)
    ELSE IF ds[i] # "default" THEN override_OV_daq(OV, ds[i], i) ELSE Ok(<<>>)])

(* switchHV powering the channel on before it sets the voltage.            *)
switchHV_daq_power_first(mode, daq, pos) ==
  LET p == getConfigProperty(daq, "bias") IN
  IF p.exc # "none" THEN Raise(p.exc)
  ELSE IF mode = "off"
  THEN Issue("set_channel_parameter", p, "Pw", Bool(FALSE), pos)
  ELSE IF mode = "idle"
  THEN Then(Issue("set_channel_parameter", p, "Pw", Bool(TRUE), pos),
            override_OV_daq(-100, daq, pos))
  ELSE IF mode = "operation"
  THEN IF ~HasKey("bias", "default", "ov") THEN Raise("KeyError")
       ELSE Then(Issue("set_channel_parameter", p, "Pw", Bool(TRUE), pos),
                 override_OV_daq(config["bias"].at["default"].ov, daq, pos))
  ELSE IF mode = "on"
  THEN Issue("set_channel_parameter", p, "Pw", Bool(TRUE), pos)
  ELSE Ok(<<>>)

(* switchHV treating mode 'on' as mode 'operation'.                        *)
switchHV_daq_on_sets_voltage(mode, daq, pos) ==
  LET p == getConfigProperty(daq, "bias") IN
  IF p.exc # "none" THEN Raise(p.exc)
  ELSE IF mode = "off"
  THEN Issue("set_channel_parameter", p, "Pw", Bool(FALSE), pos)
  ELSE IF mode = "idle"
  THEN Then(override_OV_daq(-100, daq, pos),
            Issue("set_channel_parameter", p, "Pw", Bool(TRUE), pos))
  ELSE IF mode \in {"operation", "on"}
  THEN IF ~HasKey("bias", "default", "ov") THEN Raise("KeyError")
       ELSE Then(override_OV_daq(config["bias"].at["default"].ov, daq, pos),
                 Issue("set_channel_parameter", p, "Pw", Bool(TRUE), pos))
  ELSE Ok(<<>>)

(* switchHV, lines 125-140 and 144-159: the body of the loop for one daq.  *)
(* The nested self.override_OV(..., [daq]) is a loop over the one daq.     *)
switchHV_daq(mode, daq, pos) ==
  LET p == getConfigProperty(daq, "bias") IN
  IF p.exc # "none" THEN Raise(p.exc)
  ELSE IF mode = "off"
  THEN Issue("set_channel_parameter", p, "Pw", Bool(FALSE), pos)
  ELSE IF mode = "idle"
  THEN Then(override_OV_daq(-100, daq, pos),
            Issue("set_channel_parameter", p, "Pw", Bool(TRUE), pos))
  ELSE IF mode = "operation"
  THEN IF ~HasKey("bias", "default", "ov") THEN Raise("KeyError")
       ELSE Then(override_OV_daq(config["bias"].at["default"].ov, daq, pos),
                 Issue("set_channel_parameter", p, "Pw", Bool(TRUE), pos))
  ELSE IF mode = "on"
  THEN Issue("set_channel_parameter", p, "Pw", Bool(TRUE), pos)
  ELSE Ok(<<>>)

switchHV_calls(mode, daqs) ==
  LET ds == Visited("bias", daqs) IN
  ForEach([i \in 1..Len(ds) |->
    IF daqs.some
    THEN IF ds[i] \in DOMAIN config["bias"].at
         THEN switchHV_daq(mode, ds[i], i)
         ELSE Ok(<<>>)
    ELSE IF ds[i] # "default" THEN switchHV_daq(mode, ds[i], i) ELSE Ok(<<>>)])

(* showChannelInfo, lines 169-171 and 181-182. *)
showChannelInfo_daq(mode, daq, pos) ==
  LET p == getConfigProperty(daq, mode) IN
  IF p.exc # "none" THEN Raise(p.exc)
  ELSE Issue("channel_info", p, "", NoValue, pos)

showChannelInfo_calls(mode, daqs) ==
  LET ds == Visited(mode, daqs) IN
  ForEach([i \in 1..Len(ds) |->
    IF daqs.some THEN showChannelInfo_daq(mode, ds[i], i)
    ELSE IF ds[i] # "default" THEN showChannelInfo_daq(mode, ds[i], i) ELSE Ok(<<>>)])

(* showChannelParameter, lines 197-201 and 207-211. *)
showChannelParameter_daq(parameter, mode, daq, pos) ==
  LET p == getConfigProperty(daq, mode) IN
  IF p.exc # "none" THEN Raise(p.exc)
  ELSE Then(Issue("get_channel_parameter", p, parameter, NoValue, pos),
            Issue("get_channel_parameter_property", p, parameter, NoValue, pos))

showChannelParameter_calls(parameter, mode, daqs) ==
  LET ds == Visited(mode, daqs) IN
  ForEach([i \in 1..Len(ds) |->
    IF daqs.some THEN showChannelParameter_daq(parameter, mode, ds[i], i)
    ELSE IF ds[i] # "default"
         THEN showChannelParameter_daq(parameter, mode, ds[i], i) ELSE Ok(<<>>)])

(* getChannelParameter, lines 217-219. *)
getChannelParameter_calls(parameter, mode, daq) ==
  LET p == getConfigProperty(daq, mode) IN
  IF p.exc # "none" THEN Raise(p.exc)
  ELSE Issue("get_channel_parameter", p, parameter, NoValue, 1)

(* setLV, lines 231-239 and 242-249. *)
setLV_daq(v, daq, pos) ==
  LET p == getConfigProperty(daq, "board") IN
  IF p.exc # "none" THEN Raise(p.exc)
  ELSE IF ~v.some
  THEN IF ~ValidIndex(handles, p.crate) THEN Raise("IndexError")
       ELSE IF ~HasKey("board", "default", "v") THEN Raise("KeyError")
       ELSE Issue("set_channel_parameter", p, "V0Set",
                  Num(config["board"].at["default"].v), pos)
  ELSE Issue("set_channel_parameter", p, "V0Set", Num(v.val), pos)

setLV_calls(v, daqs) ==
  LET ds == Visited("board", daqs) IN
  ForEach([i \in 1..Len(ds) |->
    IF daqs.some THEN setLV_daq(v, ds[i], i)
    ELSE IF ds[i] # "default" THEN setLV_daq(v, ds[i], i) ELSE Ok(<<>>)])

(* checkStatus, lines 260-262 and 270-272. *)
checkStatus_daq(mode, daq, pos) ==
  LET p == getConfigProperty(daq, mode) IN
  IF p.exc # "none" THEN Raise(p.exc)
  ELSE Issue("get_channel_parameter", p, "Status", NoValue, pos)

checkStatus_calls(mode, daqs) ==
  LET ds == Visited(mode, daqs) IN
  ForEach([i \in 1..Len(ds) |->
    IF daqs.some THEN checkStatus_daq(mode, ds[i], i)
    ELSE IF ds[i] # "default" THEN checkStatus_daq(mode, ds[i], i) ELSE Ok(<<>>)])

-----------------------------------------------------------------------------
(* Running a method *)

(* A manager that issues a failed call once more.                          *)
Issued_retry(calls, failAt) ==
  IF failAt = 0 THEN calls
  ELSE [i \in 1..(failAt + 1) |->
          IF i = failAt THEN [calls[i] EXCEPT !.ok = FALSE] ELSE calls[Min(i, failAt)]]

(* The calls issued when the library raises CAENHVError in call number     *)
(* failAt (0: in none): no method catches it, so the failing call is the   *)
(* last one.                                                               *)
Issued(calls, failAt) ==
  IF failAt = 0 THEN calls
  ELSE [i \in 1..failAt |-> IF i = failAt THEN [calls[i] EXCEPT !.ok = FALSE]
                                           ELSE calls[i]]

Invoke(o, plan) ==
  /\ outcome = "none"
  /\ nops < MaxOps
  /\ \E failAt \in 0..Len(plan.calls) :
       /\ log' = Issued(plan.calls, failAt)
       /\ hw' = Apply(hw, log')
       /\ outcome' = IF failAt # 0 THEN "CAENHVError"
                     ELSE IF plan.exc # "none" THEN plan.exc ELSE "returned"
  /\ op' = o
  /\ nops' = nops + 1
  /\ UNCHANGED <<config, handles, init_calls>>

Op(name, mode, parameter, daqs) ==
  [name |-> name, mode |-> mode, parameter |-> parameter, daqs |-> daqs]

NoOp == Op("", "", "", PyNone)

switchLV ==
  \E on \in BOOLEAN, daqs \in DaqsArgs :
    Invoke(Op("switchLV", "", "", daqs), switchLV_calls(on, daqs))

override_OV ==
  \E OV \in OVArgs, daqs \in DaqsArgs :
    Invoke(Op("override_OV", "", "", daqs), override_OV_calls(OV, daqs))

switchHV ==
  \E mode \in HVModes, daqs \in DaqsArgs :
    Invoke(Op("switchHV", mode, "", daqs), switchHV_calls(mode, daqs))

showChannelInfo ==
  \E mode \in Modes, daqs \in DaqsArgs :
    Invoke(Op("showChannelInfo", mode, "", daqs), showChannelInfo_calls(mode, daqs))

showChannelParameter ==
  \E parameter \in Parameters, mode \in Modes, daqs \in DaqsArgs :
    Invoke(Op("showChannelParameter", mode, parameter, daqs),
           showChannelParameter_calls(parameter, mode, daqs))

getChannelParameter ==
  \E parameter \in Parameters, mode \in Modes, daq \in Names :
    Invoke(Op("getChannelParameter", mode, parameter, Some(<<daq>>)),
           getChannelParameter_calls(parameter, mode, daq))

setLV ==
  \E v \in VArgs, daqs \in DaqsArgs :
    Invoke(Op("setLV", "", "", daqs), setLV_calls(v, daqs))

checkStatus ==
  \E mode \in Modes, daqs \in DaqsArgs :
    Invoke(Op("checkStatus", mode, "", daqs), checkStatus_calls(mode, daqs))

(* The method has returned or raised; the caller goes on to its next call. *)
Resume ==
  /\ outcome # "none"
  /\ op' = NoOp
  /\ log' = <<>>
  /\ outcome' = "none"
  /\ UNCHANGED <<config, handles, init_calls, hw, nops>>

(* __init__: one init_system per crate of the configuration.               *)
Init ==
  /\ config \in Configs
  /\ handles = [k \in 1..Len(config.crates) |-> init_system(k)]
  /\ init_calls = Len(config.crates)
  /\ hw \in PowerSupplyStates
  /\ op = NoOp
  /\ log = <<>>
  /\ outcome = "none"
  /\ nops = 0

Next ==
  \/ switchLV
  \/ override_OV
  \/ switchHV
  \/ showChannelInfo
  \/ showChannelParameter
  \/ getChannelParameter
  \/ setLV
  \/ checkStatus
  \/ Resume

Spec == Init /\ [][Next]_vars

-----------------------------------------------------------------------------
(* The claims *)

(* The section of the configuration a method looks its daqs up in, and the *)
(* daq its loop is at in iteration pos.                                    *)
ModeOf(o) ==
  IF o.name \in {"switchLV", "setLV"} THEN "board"
  ELSE IF o.name \in {"override_OV", "switchHV"} THEN "bias"
  ELSE o.mode

DaqAt(o, pos) ==
  IF o.daqs.some THEN o.daqs.val[pos] ELSE config[ModeOf(o)].order[pos]

SameCall(a, b) == a.fn = b.fn /\ a.parameter = b.parameter

(* C1: every library call a method issues for a daq in a mode targets the  *)
(* triple the configuration gives that daq in that mode: the handle at     *)
(* index 'crate' of the handle list, the board 'board' and the channel     *)
(* 'channel'.                                                              *)
C1_TargetsConfiguredTriple ==
  \A i \in DOMAIN log :
    LET m == ModeOf(op)
        d == DaqAt(op, log[i].pos)
    IN /\ d \in DOMAIN config[m].at
       /\ {"crate", "board", "channel"} \subseteq DOMAIN config[m].at[d]
       /\ ValidIndex(handles, config[m].at[d].crate)
       /\ log[i].handle = PyIndex(handles, config[m].at[d].crate)
       /\ log[i].board = config[m].at[d].board
       /\ log[i].channel = config[m].at[d].channel

(* A method has called the library for both boards of section 'board',     *)
(* the second through the crate index -1.                                  *)
C1_Witness ==
  /\ outcome = "returned"
  /\ ModeOf(op) = "board"
  /\ \E i, j \in DOMAIN log :
       /\ DaqAt(op, log[i].pos) = "m1x1"
       /\ DaqAt(op, log[j].pos) = "m1x2"
       /\ log[j].handle = handles[Len(handles)]
       /\ <<log[i].board, log[i].channel>> # <<log[j].board, log[j].channel>>

(* C2: in switchHV with mode 'idle' or 'operation' the V0Set write of a    *)
(* daq comes right before the Pw = True write on the same channel, and     *)
(* both come before any write for the next daq.                            *)
C2_SetPointBeforePower ==
  (op.name = "switchHV" /\ op.mode \in {"idle", "operation"}) =>
    /\ \A i \in DOMAIN log :
         /\ log[i].fn = "set_channel_parameter"
         /\ log[i].parameter \in {"V0Set", "Pw"}
    /\ \A i, j \in DOMAIN log : i < j => log[i].pos <= log[j].pos
    /\ \A j \in DOMAIN log :
         log[j].parameter = "Pw" =>
           /\ log[j].value = Bool(TRUE)
           /\ j > 1
           /\ log[j - 1].parameter = "V0Set"
           /\ log[j - 1].ok
           /\ log[j - 1].pos = log[j].pos
           /\ <<log[j - 1].handle, log[j - 1].board, log[j - 1].channel>>
                = <<log[j].handle, log[j].board, log[j].channel>>
    /\ \A i \in DOMAIN log :
         (log[i].parameter = "V0Set" /\ i < Len(log)) =>
           /\ log[i + 1].parameter = "Pw"
           /\ log[i + 1].pos = log[i].pos

(* switchHV has set and powered two channels, one after the other.         *)
C2_Witness ==
  /\ op.name = "switchHV"
  /\ op.mode \in {"idle", "operation"}
  /\ outcome = "returned"
  /\ Len(log) = 4
  /\ log[1].pos # log[4].pos
  /\ <<log[1].handle, log[1].board, log[1].channel>>
       # <<log[4].handle, log[4].board, log[4].channel>>

(* C3: switchHV with mode 'on' writes nothing but Pw = True, with mode     *)
(* 'off' nothing but Pw = False, and leaves the V0Set of every channel as  *)
(* it was.                                                                 *)
C3_OnOffKeepSetPoint ==
  [][(op'.name = "switchHV" /\ op'.mode \in {"on", "off"}) =>
       /\ \A s \in Slots : hw'[s].V0Set = hw[s].V0Set
       /\ \A i \in DOMAIN log' :
            /\ log'[i].fn = "set_channel_parameter"
            /\ log'[i].parameter = "Pw"
            /\ log'[i].value = Bool(op'.mode = "on")]_vars

(* switchHV with mode 'on' has powered on a channel that keeps a voltage   *)
(* set earlier.                                                            *)
C3_Witness ==
  /\ op.name = "switchHV"
  /\ op.mode = "on"
  /\ outcome = "returned"
  /\ \E i \in DOMAIN log :
       LET s == <<log[i].handle, log[i].board, log[i].channel>>
       IN log[i].ok /\ hw[s].Pw = Bool(TRUE) /\ hw[s].V0Set # Num(0)

(* The offset override_OV adds for a daq: its own v_offset_tofpet, or the  *)
(* one of the default table.                                               *)
OffsetOf(d) ==
  IF "v_offset_tofpet" \in DOMAIN config["bias"].at[d]
  THEN config["bias"].at[d].v_offset_tofpet
  ELSE config["bias"].at["default"].v_offset_tofpet

(* C4: switchHV with mode 'operation' writes, for every configuration, a   *)
(* V0Set of 3.5 V + v_offset_tofpet + v_bd of the daq.                     *)
C4_OperationIs35 ==
  (op.name = "switchHV" /\ op.mode = "operation") =>
    \A i \in DOMAIN log :
      log[i].parameter = "V0Set" =>
        LET d == DaqAt(op, log[i].pos)
        IN log[i].value = Num(35 + OffsetOf(d) + config["bias"].at[d].v_bd)

(* C5 as stated: within one call of a method no library call is issued     *)
(* twice for the same daq and parameter; a failed call ends the method;    *)
(* init_system is called by the constructor alone.                         *)
C5_OncePerDaq ==
  /\ \A i, j \in DOMAIN log :
       (i < j /\ SameCall(log[i], log[j])) =>
         DaqAt(op, log[i].pos) # DaqAt(op, log[j].pos)
  /\ \A i \in DOMAIN log : ~log[i].ok => (i = Len(log) /\ outcome = "CAENHVError")
  /\ init_calls = Len(config.crates)

(* C5 amended: within one call of a method no library call is issued       *)
(* twice for the same entry of the list of daqs it goes through and the    *)
(* same parameter; a failed call is the last call of the method, which     *)
(* ends with the library's error; init_system is called by the constructor *)
(* alone.                                                                  *)
C5_OncePerEntry ==
  /\ \A i, j \in DOMAIN log :
       (i < j /\ SameCall(log[i], log[j])) => log[i].pos # log[j].pos
  /\ \A i \in DOMAIN log : ~log[i].ok => (i = Len(log) /\ outcome = "CAENHVError")
  /\ outcome = "CAENHVError" => (log # <<>> /\ ~log[Len(log)].ok)
  /\ \A i \in DOMAIN log : log[i].fn # "init_system"
  /\ init_calls = Len(config.crates)

(* A method given the same daq twice has called the library for each       *)
(* entry, and the second call has failed.                                  *)
C5_Witness ==
  /\ op.daqs.some
  /\ Len(op.daqs.val) = 2
  /\ op.daqs.val[1] = op.daqs.val[2]
  /\ outcome = "CAENHVError"
  /\ Len(log) = 2
  /\ SameCall(log[1], log[2])
  /\ log[1].ok /\ ~log[2].ok

====
